---- MODULE Spec2Model ----
(***************************************************************************)
(* Recipe API: the recipe, tag and ingredient endpoints of recipe/views.py *)
(* with the serializers of recipe/serializers.py, over the entity store    *)
(* (users, recipes, tags, ingredients and the two association tables).     *)
(***************************************************************************)
EXTENDS Integers, Sequences, FiniteSets, TLC

\* ---------------------------------------------------------------- bounds
MaxRecipes == 2        \* recipe ids the store hands out
MaxFixture == 2        \* tags (ingredients) present before the first request

\* ------------------------------------------------------------- universes
Users == {"u1", "u2"}
Names == {"a", "b"}
Kinds == {"Tag", "Ingredient"}
RecipeIds == 1..MaxRecipes
AttrIds == 1..MaxFixture

\* the payload key that carries the names of a kind
KeyOf == [Tag |-> "tags", Ingredient |-> "ingredients"]

\* order_by("-name") compares names; rank of a name in that order
NameRank == [a |-> 1, b |-> 2]

\* the fixture rows in the order the tests insert them through the ORM: two
\* tags of one user before another user's, an ingredient of each user first
FixtureOrder ==
    [Tag |-> <<[user |-> "u1", name |-> "a"], [user |-> "u1", name |-> "b"],
               [user |-> "u2", name |-> "a"], [user |-> "u2", name |-> "b"]>>,
     Ingredient |->
             <<[user |-> "u1", name |-> "a"], [user |-> "u2", name |-> "a"],
               [user |-> "u1", name |-> "b"], [user |-> "u2", name |-> "b"]>>]

VARIABLES
    recipes,      \* Recipe table: id -> [user, title]
    recipe_seq,   \* last id handed out by the Recipe table
    attrs,        \* Tag and Ingredient tables: kind -> (id -> [user, name])
    links,        \* association tables: kind -> (recipe id -> set of ids)
    resp,         \* the last request and its response
    inflight      \* recipe create requests being served concurrently

vars == <<recipes, recipe_seq, attrs, links, resp, inflight>>
db == <<recipes, recipe_seq, attrs, links>>

\* ------------------------------------------------------------- payloads
Restrict(f, K) == [k \in K |-> f[k]]

\* the name lists a request carries: empty, one name, two names, a repeat,
\* a blank name
NameLists == {<<>>, <<"a">>, <<"a", "b">>, <<"b", "b">>, <<"">>}

\* a recipe payload is a JSON object: a key is present or absent.  Requests
\* carry a title (valid or blank) or none, and names for at most one kind
RecipePayloads ==
    {p \in {Restrict(full, K) :
               full \in [title : {"", "t1"}, tags : NameLists,
                         ingredients : NameLists],
               K \in {{}, {"title"}, {"tags"}, {"ingredients"},
                      {"title", "tags"}, {"title", "ingredients"}}} :
        \* a blank title comes alone or with the one-name list
        ("title" \in DOMAIN p /\ p.title = "") =>
            \A k \in DOMAIN p \ {"title"} : p[k] = <<"a">>}

\* the payloads of the runs that also rename and delete tags and ingredients,
\* and of the concurrent runs: a valid title or none, no name or the name "a"
CorePayloads ==
    {p \in RecipePayloads :
        /\ p # <<>>
        /\ \A k \in DOMAIN p \ {"title"} : p[k] = <<"a">>
        /\ "title" \in DOMAIN p => p.title = "t1"}

NoPayload == <<>>
NoBody == <<>>

Response(op, user, id, req, status, body) ==
    [op |-> op, user |-> user, id |-> id, req |-> req,
     status |-> status, body |-> body]

\* ---------------------------------------------------------------- views
\* the sequences that list the set S once each, largest key first
OrderedDesc(S, key(_)) ==
    {s \in [1..Cardinality(S) -> S] :
        /\ \A i, j \in DOMAIN s : i # j => s[i] # s[j]
        /\ \A i, j \in DOMAIN s : i < j => key(s[i]) >= key(s[j])}

\* RecipeViewSet.get_queryset without the user filter
RecipeViewSet_queryset_all(u) == DOMAIN recipes

\* RecipeViewSet.get_queryset: the recipes of the authenticated user
RecipeViewSet_get_queryset(u) ==
    {r \in DOMAIN recipes : recipes[r].user = u}

\* BaseRecipeAttrViewSet.get_queryset without the user filter
BaseRecipeAttrViewSet_queryset_all(k, u) == DOMAIN attrs[k]

\* BaseRecipeAttrViewSet.get_queryset: the user's tags (ingredients)
BaseRecipeAttrViewSet_get_queryset(k, u) ==
    {t \in DOMAIN attrs[k] : attrs[k][t].user = u}

\* GET /recipes: order_by("-id")
RecipeList(u) ==
    /\ \E body \in OrderedDesc(RecipeViewSet_get_queryset(u), LAMBDA r : r) :
          resp' = Response("recipe_list", u, 0, NoPayload, 200, body)
    /\ UNCHANGED <<db, inflight>>

\* GET /tags, GET /ingredients: order_by("-name"), ties in any order
AttrList(k, u) ==
    /\ \E body \in OrderedDesc(BaseRecipeAttrViewSet_get_queryset(k, u),
                               LAMBDA t : NameRank[attrs[k][t].name]) :
          resp' = Response("attr_list", u, 0, [kind |-> k], 200, body)
    /\ UNCHANGED <<db, inflight>>

\* GET /tags?assigned_only=1, GET /ingredients?assigned_only=1: the same
\* list handler; get_queryset does not read the query parameters
AttrListAssignedOnly(k, u) ==
    /\ \E body \in OrderedDesc(BaseRecipeAttrViewSet_get_queryset(k, u),
                               LAMBDA t : NameRank[attrs[k][t].name]) :
          resp' = Response("attr_list", u, 0,
                           [kind |-> k, assigned_only |-> 1], 200, body)
    /\ UNCHANGED <<db, inflight>>

\* ---------------------------------------------------------- serializers
\* the writable fields RecipeDetailSerializer declares (Meta.fields without
\* the read-only id); no other key of a payload reaches validated_data
RecipeDetailSerializer_fields ==
    {"title", "price", "time_minutes", "link", "description"}

validated_data(p) == Restrict(p, DOMAIN p \cap RecipeDetailSerializer_fields)

\* the store as one value, so that consecutive saves compose
Store == [recipes |-> recipes, recipe_seq |-> recipe_seq,
          attrs |-> attrs, links |-> links]

Commit(S) ==
    /\ recipes' = S.recipes
    /\ recipe_seq' = S.recipe_seq
    /\ attrs' = S.attrs
    /\ links' = S.links

\* is_valid for POST: title is required and may not be blank
is_valid_create(p) == "title" \in DOMAIN p /\ p.title # ""

\* is_valid for PATCH (partial=True): a title that is given may not be blank
is_valid_partial(p) == "title" \in DOMAIN p => p.title # ""

Range(f) == {f[i] : i \in DOMAIN f}

\* the names a payload gives for a kind (none when the key is absent)
NamesOf(p, k) == IF KeyOf[k] \in DOMAIN p THEN Range(p[KeyOf[k]]) ELSE {}

\* a create that attaches every row carrying a listed name, whoever owns it
RecipeSerializer_create_any_owner(S, u, p) ==
    LET id == S.recipe_seq + 1
        data == validated_data(p)
    IN [S EXCEPT
          !.recipes = (id :> [user |-> u, title |-> data.title]) @@ S.recipes,
          !.recipe_seq = id,
          !.links = [k \in Kinds |->
                       (id :> {t \in DOMAIN S.attrs[k] :
                                 S.attrs[k][t].name \in NamesOf(p, k)})
                       @@ S.links[k]]]

\* a create that inserts a row for a listed name without looking it up first
RecipeSerializer_create_always_insert(S, u, p) ==
    LET id == S.recipe_seq + 1
        data == validated_data(p)
        fresh(k) == IF DOMAIN S.attrs[k] = {} THEN 1
                    ELSE 1 + CHOOSE t \in DOMAIN S.attrs[k] :
                                 \A t2 \in DOMAIN S.attrs[k] : t2 <= t
        added(k) == IF NamesOf(p, k) = {} THEN <<>>
                    ELSE fresh(k) :> [user |-> u,
                                      name |-> CHOOSE n \in NamesOf(p, k) : TRUE]
    IN [S EXCEPT
          !.recipes = (id :> [user |-> u, title |-> data.title]) @@ S.recipes,
          !.recipe_seq = id,
          !.attrs = [k \in Kinds |-> added(k) @@ S.attrs[k]],
          !.links = [k \in Kinds |-> (id :> DOMAIN added(k)) @@ S.links[k]]]

\* ModelSerializer.create: a new recipe row from validated_data and the user
\* passed to save(); no relation is written, the new recipe has none
RecipeSerializer_create(S, u, p) ==
    LET id == S.recipe_seq + 1
        data == validated_data(p)
    IN [S EXCEPT
          !.recipes = (id :> [user |-> u, title |-> data.title]) @@ S.recipes,
          !.recipe_seq = id,
          !.links = [k \in Kinds |-> (id :> {}) @@ S.links[k]]]

\* an update that resets the relations of the recipe on every save
RecipeSerializer_update_clears(S, r, p) ==
    LET data == validated_data(p)
    IN [S EXCEPT
          !.recipes[r].title =
              IF "title" \in DOMAIN data THEN data.title ELSE @,
          !.links = [k \in Kinds |-> [S.links[k] EXCEPT ![r] = {}]]]

\* ModelSerializer.update: setattr for every key of validated_data, then save
RecipeSerializer_update(S, r, p) ==
    LET data == validated_data(p)
    IN [S EXCEPT
          !.recipes[r].title =
              IF "title" \in DOMAIN data THEN data.title ELSE @]

\* RecipeViewSet.perform_create: serializer.save(user=request.user), then
\* CreateModelMixin.perform_create saves the same serializer again; the
\* second save finds serializer.instance set and runs update()
perform_create(S, u, p) ==
    LET S1 == RecipeSerializer_create(S, u, p)
    IN RecipeSerializer_update(S1, S1.recipe_seq, p)

\* a create that saves before it looks at the outcome of validation
RecipeCreate_save_then_validate(u, p) ==
    /\ recipe_seq < MaxRecipes
    /\ "title" \in DOMAIN p
    /\ Commit(perform_create(Store, u, p))
    /\ IF is_valid_create(p)
       THEN resp' = Response("recipe_create", u, recipe_seq + 1, p, 201,
                             <<recipe_seq + 1>>)
       ELSE resp' = Response("recipe_create", u, 0, p, 400, NoBody)
    /\ UNCHANGED inflight

\* POST /recipes
RecipeCreate(u, p) ==
    /\ is_valid_create(p) => recipe_seq < MaxRecipes
    /\ IF is_valid_create(p)
       THEN /\ Commit(perform_create(Store, u, p))
            /\ resp' = Response("recipe_create", u, recipe_seq + 1, p, 201,
                                <<recipe_seq + 1>>)
       ELSE /\ UNCHANGED db
            /\ resp' = Response("recipe_create", u, 0, p, 400, NoBody)
    /\ UNCHANGED inflight

\* GET /recipes/{id}
RecipeRetrieve(u, r) ==
    /\ IF r \in RecipeViewSet_get_queryset(u)
       THEN resp' = Response("recipe_retrieve", u, r, NoPayload, 200, <<r>>)
       ELSE resp' = Response("recipe_retrieve", u, r, NoPayload, 404, NoBody)
    /\ UNCHANGED <<db, inflight>>

\* PATCH /recipes/{id}
RecipePartialUpdate(u, r, p) ==
    /\ IF r \notin RecipeViewSet_get_queryset(u)
       THEN /\ UNCHANGED db
            /\ resp' = Response("recipe_update", u, r, p, 404, NoBody)
       ELSE IF ~is_valid_partial(p)
       THEN /\ UNCHANGED db
            /\ resp' = Response("recipe_update", u, r, p, 400, NoBody)
       ELSE /\ Commit(RecipeSerializer_update(Store, r, p))
            /\ resp' = Response("recipe_update", u, r, p, 200, <<r>>)
    /\ UNCHANGED inflight

\* what a multipart upload carries in its image part
ImageFiles == {"jpeg", "notanimage"}

\* POST /recipes/{id}/upload-image: RecipeViewSet declares no upload_image
\* action, so the router has no route for the path and no handler runs
RecipeUploadImage(u, r, f) ==
    /\ resp' = Response("recipe_upload_image", u, r, [image |-> f], 404, NoBody)
    /\ UNCHANGED <<db, inflight>>

Without(f, x) == [y \in DOMAIN f \ {x} |-> f[y]]

\* a delete that also removes the tags and ingredients of the recipe
RecipeDestroy_with_attrs(u, r) ==
    /\ IF r \notin RecipeViewSet_get_queryset(u)
       THEN /\ UNCHANGED db
            /\ resp' = Response("recipe_destroy", u, r, NoPayload, 404, NoBody)
       ELSE /\ recipes' = Without(recipes, r)
            /\ attrs' = [k \in Kinds |->
                           [t \in DOMAIN attrs[k] \ links[k][r] |-> attrs[k][t]]]
            /\ links' = [k \in Kinds |->
                           [r2 \in DOMAIN links[k] \ {r} |->
                               links[k][r2] \ links[k][r]]]
            /\ UNCHANGED recipe_seq
            /\ resp' = Response("recipe_destroy", u, r, NoPayload, 204, NoBody)
    /\ UNCHANGED inflight

\* DELETE /recipes/{id}: the recipe row and its association rows go
RecipeDestroy(u, r) ==
    /\ IF r \notin RecipeViewSet_get_queryset(u)
       THEN /\ UNCHANGED db
            /\ resp' = Response("recipe_destroy", u, r, NoPayload, 404, NoBody)
       ELSE /\ recipes' = Without(recipes, r)
            /\ links' = [k \in Kinds |-> Without(links[k], r)]
            /\ UNCHANGED <<recipe_seq, attrs>>
            /\ resp' = Response("recipe_destroy", u, r, NoPayload, 204, NoBody)
    /\ UNCHANGED inflight

\* a tag (ingredient) payload: the name key, present or not
AttrPayloads == [name : Names \cup {""}]

\* TagSerializer / IngredientSerializer validation: a name may not be blank
is_valid_attr(p) == "name" \in DOMAIN p => p.name # ""

\* PATCH /tags/{id}, /ingredients/{id}
AttrPartialUpdate(k, u, t, p) ==
    /\ IF t \notin BaseRecipeAttrViewSet_get_queryset(k, u)
       THEN /\ UNCHANGED db
            /\ resp' = Response("attr_update", u, t, [kind |-> k], 404, NoBody)
       ELSE IF ~is_valid_attr(p)
       THEN /\ UNCHANGED db
            /\ resp' = Response("attr_update", u, t, [kind |-> k], 400, NoBody)
       ELSE /\ attrs' = [attrs EXCEPT ![k][t].name =
                            IF "name" \in DOMAIN p THEN p.name ELSE @]
            /\ UNCHANGED <<recipes, recipe_seq, links>>
            /\ resp' = Response("attr_update", u, t, [kind |-> k], 200, <<t>>)
    /\ UNCHANGED inflight

\* a delete that removes the row and leaves the association rows behind
AttrDestroy_keeps_links(k, u, t) ==
    /\ IF t \notin BaseRecipeAttrViewSet_get_queryset(k, u)
       THEN /\ UNCHANGED db
            /\ resp' = Response("attr_destroy", u, t, [kind |-> k], 404, NoBody)
       ELSE /\ attrs' = [attrs EXCEPT ![k] = Without(@, t)]
            /\ UNCHANGED <<recipes, recipe_seq, links>>
            /\ resp' = Response("attr_destroy", u, t, [kind |-> k], 204, NoBody)
    /\ UNCHANGED inflight

\* DELETE /tags/{id}, /ingredients/{id}: the row and its association rows go
AttrDestroy(k, u, t) ==
    /\ IF t \notin BaseRecipeAttrViewSet_get_queryset(k, u)
       THEN /\ UNCHANGED db
            /\ resp' = Response("attr_destroy", u, t, [kind |-> k], 404, NoBody)
       ELSE /\ attrs' = [attrs EXCEPT ![k] = Without(@, t)]
            /\ links' = [links EXCEPT ![k] =
                            [r \in DOMAIN @ |-> @[r] \ {t}]]
            /\ UNCHANGED <<recipes, recipe_seq>>
            /\ resp' = Response("attr_destroy", u, t, [kind |-> k], 204, NoBody)
    /\ UNCHANGED inflight

\* -------------------------------------------------------- authentication
\* what a request presents: the token of a user, a token that matches no
\* user, or no Authorization header at all
Credentials == Users \cup {"bad", "none"}

\* TokenAuthentication.authenticate: the user of a known token; no header
\* leaves the request anonymous; an unknown token raises AuthenticationFailed
TokenAuthentication_authenticate(cred) ==
    IF cred \in Users THEN cred
    ELSE IF cred = "none" THEN "AnonymousUser"
    ELSE "AuthenticationFailed"

\* a permission class that lets every request through
AllowAny_has_permission(user) == TRUE

\* IsAuthenticated.has_permission: request.user is a real, authenticated user
IsAuthenticated_has_permission(user) == user \in Users

\* the answer to a request that did not pass authentication or permission:
\* 401, the views' authenticator supplying a WWW-Authenticate header
NotAuthenticated(cred, op, id, req) ==
    /\ resp' = Response(op, cred, id, req, 401, NoBody)
    /\ UNCHANGED <<db, inflight>>

\* APIView.initial runs authentication and the permission check before the
\* handler of any action of the two view sets
Authorized(cred) ==
    IsAuthenticated_has_permission(TokenAuthentication_authenticate(cred))

AuthRecipeList(cred) ==
    IF Authorized(cred) THEN RecipeList(cred)
    ELSE NotAuthenticated(cred, "recipe_list", 0, NoPayload)

AuthRecipeRetrieve(cred, r) ==
    IF Authorized(cred) THEN RecipeRetrieve(cred, r)
    ELSE NotAuthenticated(cred, "recipe_retrieve", r, NoPayload)

AuthRecipeCreate(cred, p) ==
    IF Authorized(cred) THEN RecipeCreate(cred, p)
    ELSE NotAuthenticated(cred, "recipe_create", 0, p)

AuthRecipePartialUpdate(cred, r, p) ==
    IF Authorized(cred) THEN RecipePartialUpdate(cred, r, p)
    ELSE NotAuthenticated(cred, "recipe_update", r, p)

AuthRecipeDestroy(cred, r) ==
    IF Authorized(cred) THEN RecipeDestroy(cred, r)
    ELSE NotAuthenticated(cred, "recipe_destroy", r, NoPayload)

AuthAttrList(cred, k) ==
    IF Authorized(cred) THEN AttrList(k, cred)
    ELSE NotAuthenticated(cred, "attr_list", 0, [kind |-> k])

AuthAttrPartialUpdate(cred, k, t, p) ==
    IF Authorized(cred) THEN AttrPartialUpdate(k, cred, t, p)
    ELSE NotAuthenticated(cred, "attr_update", t, [kind |-> k])

AuthAttrDestroy(cred, k, t) ==
    IF Authorized(cred) THEN AttrDestroy(k, cred, t)
    ELSE NotAuthenticated(cred, "attr_destroy", t, [kind |-> k])

\* ------------------------------------------------------ concurrent creates
Requests == {1, 2}

\* a POST /recipes arrives: validation runs before anything is written
\* ("absent" records the names the user did not own on arrival)
ConcBegin(c, u, p) ==
    /\ c \notin DOMAIN inflight
    /\ IF is_valid_create(p)
       THEN /\ inflight' = (c :> [user |-> u, req |-> p, pc |-> "save1", id |-> 0,
                                  absent |-> [k \in Kinds |->
                                      {n \in NamesOf(p, k) :
                                          \A t \in DOMAIN attrs[k] :
                                              attrs[k][t] # [user |-> u, name |-> n]}]])
                           @@ inflight
            /\ UNCHANGED resp
       ELSE /\ resp' = Response("recipe_create", u, 0, p, 400, NoBody)
            /\ UNCHANGED inflight
    /\ UNCHANGED db

\* perform_create, first statement: serializer.save(user=self.request.user)
ConcSave1(c) ==
    /\ c \in DOMAIN inflight
    /\ inflight[c].pc = "save1"
    /\ recipe_seq < MaxRecipes
    /\ Commit(RecipeSerializer_create(Store, inflight[c].user, inflight[c].req))
    /\ inflight' = [inflight EXCEPT ![c].pc = "save2", ![c].id = recipe_seq + 1]
    /\ UNCHANGED resp

\* perform_create, second statement: super().perform_create(serializer)
ConcSave2(c) ==
    /\ c \in DOMAIN inflight
    /\ inflight[c].pc = "save2"
    /\ Commit(RecipeSerializer_update(Store, inflight[c].id, inflight[c].req))
    /\ inflight' = [inflight EXCEPT ![c].pc = "done"]
    /\ resp' = Response("recipe_create", inflight[c].user, inflight[c].id,
                        inflight[c].req, 201, <<inflight[c].id>>)

\* ------------------------------------------------------------ fixtures
\* the rows present before the first request: the tests insert them through
\* the ORM (Tag.objects.create, create_recipe, recipe.tags.add), each recipe
\* linked only to rows of its own user
FixtureAttrs(n) == [k \in Kinds |-> [i \in 1..n[k] |-> FixtureOrder[k][i]]]

FixtureLinks(A, owner, all) ==
    [k \in Kinds |->
        IF all[k] THEN {t \in DOMAIN A[k] : A[k][t].user = owner} ELSE {}]

Fixture(n, m, owner, all) ==
    /\ attrs = FixtureAttrs(n)
    /\ recipes = [r \in 1..m |-> [user |-> owner[r], title |-> "t0"]]
    /\ recipe_seq = m
    /\ links = [k \in Kinds |->
                  [r \in 1..m |->
                      FixtureLinks(FixtureAttrs(n), owner[r], all[r])[k]]]
    /\ resp = Response("none", "u1", 0, NoPayload, 0, NoBody)
    /\ inflight = <<>>

\* no vocabulary at all, or MaxFixture rows of each kind
Init ==
    \E n \in {[k \in Kinds |-> 0], [k \in Kinds |-> MaxFixture]},
       m \in 0..(MaxRecipes - 1) :
       \E owner \in [1..m -> Users], all \in [1..m -> BOOLEAN] :
          Fixture(n, m, owner, [r \in 1..m |-> [k \in Kinds |-> all[r]]])

\* MaxFixture rows of one kind, all recipes but one, every recipe linked to all rows of
\* its owner (the two tables are independent: one is populated at a time)
InitAll ==
    \E k0 \in Kinds, owner \in [1..(MaxRecipes - 1) -> Users] :
       Fixture([k \in Kinds |-> IF k = k0 THEN MaxFixture ELSE 0],
               MaxRecipes - 1, owner,
               [r \in 1..(MaxRecipes - 1) |-> [k \in Kinds |-> TRUE]])

\* MaxFixture rows of each kind and every recipe id in use, every recipe
\* linked to all rows of its owner: recipes of one user share their rows
InitShared ==
    \E owner \in [RecipeIds -> Users] :
       Fixture([k \in Kinds |-> MaxFixture], MaxRecipes, owner,
               [r \in RecipeIds |-> [k \in Kinds |-> TRUE]])

Reads ==
    \/ \E u \in Users : RecipeList(u)
    \/ \E u \in Users, r \in RecipeIds : RecipeRetrieve(u, r)
    \/ \E k \in Kinds, u \in Users : AttrList(k, u)
    \/ \E k \in Kinds, u \in Users : AttrListAssignedOnly(k, u)

\* the recipe endpoints, with every payload
Next ==
    \/ Reads
    \/ \E u \in Users, p \in RecipePayloads : RecipeCreate(u, p)
    \/ \E u \in Users, r \in RecipeIds, p \in RecipePayloads :
          RecipePartialUpdate(u, r, p)
    \/ \E u \in Users, r \in RecipeIds : RecipeDestroy(u, r)
    \/ \E u \in Users, r \in RecipeIds, f \in ImageFiles :
          RecipeUploadImage(u, r, f)

Spec == Init /\ [][Next]_vars

\* the tag and ingredient endpoints, with the recipe writes that name them
NextAll ==
    \/ \E k \in Kinds, u \in Users : AttrList(k, u)
    \/ \E u \in Users, p \in CorePayloads : RecipeCreate(u, p)
    \/ \E u \in Users, r \in RecipeIds, p \in CorePayloads :
          RecipePartialUpdate(u, r, p)
    \/ \E k \in Kinds, u \in Users, t \in AttrIds, p \in AttrPayloads :
          AttrPartialUpdate(k, u, t, p)
    \/ \E k \in Kinds, u \in Users, t \in AttrIds : AttrDestroy(k, u, t)

SpecAll == InitAll /\ [][NextAll]_vars

\* recipe deletes among recipes that share tags and ingredients
NextShared ==
    \/ Reads
    \/ \E u \in Users, r \in RecipeIds, p \in CorePayloads :
          RecipePartialUpdate(u, r, p)
    \/ \E u \in Users, r \in RecipeIds : RecipeDestroy(u, r)

SpecShared == InitShared /\ [][NextShared]_vars

\* the bodies of the requests that probe authentication: one valid recipe
\* payload and one valid rename
AuthPayloads == {[title |-> "t1"]}
AuthAttrPayloads == {[name |-> "a"]}

\* every endpoint, called with and without a valid credential
NextAuth ==
    \/ \E c \in Credentials : AuthRecipeList(c)
    \/ \E c \in Credentials, r \in RecipeIds : AuthRecipeRetrieve(c, r)
    \/ \E c \in Credentials, p \in AuthPayloads : AuthRecipeCreate(c, p)
    \/ \E c \in Credentials, r \in RecipeIds, p \in AuthPayloads :
          AuthRecipePartialUpdate(c, r, p)
    \/ \E c \in Credentials, r \in RecipeIds : AuthRecipeDestroy(c, r)
    \/ \E c \in Credentials, k \in Kinds : AuthAttrList(c, k)
    \/ \E c \in Credentials, k \in Kinds, t \in AttrIds, p \in AuthAttrPayloads :
          AuthAttrPartialUpdate(c, k, t, p)
    \/ \E c \in Credentials, k \in Kinds, t \in AttrIds : AuthAttrDestroy(c, k, t)

SpecAuth == InitAll /\ [][NextAuth]_vars

\* two recipe creates served at the same time, statement by statement
NextConc ==
    \/ \E c \in Requests, u \in Users, p \in CorePayloads : ConcBegin(c, u, p)
    \/ \E c \in Requests : ConcSave1(c)
    \/ \E c \in Requests : ConcSave2(c)

SpecConc == Init /\ [][NextConc]_vars

\* ------------------------------------------------------------ properties
Owned(k, u, n) ==
    {t \in DOMAIN attrs[k] : attrs[k][t].user = u /\ attrs[k][t].name = n}
IsRecipeWrite(op) == op \in {"recipe_create", "recipe_update"}
Succeeded == resp.status \in {200, 201}

\* C1: a recipe list, tag list or ingredient list returned to a user contains
\* only rows owned by that user, whatever requests were served before.
C1_ListsOnlyOwn ==
    /\ resp.op = "recipe_list" =>
          \A i \in DOMAIN resp.body :
             /\ resp.body[i] \in DOMAIN recipes
             /\ recipes[resp.body[i]].user = resp.user
    /\ resp.op = "attr_list" =>
          \A i \in DOMAIN resp.body :
             /\ resp.body[i] \in DOMAIN attrs[resp.req.kind]
             /\ attrs[resp.req.kind][resp.body[i]].user = resp.user

\* a user is handed a non-empty tag list while another user owns tags too
C1_Witness ==
    /\ resp.op = "attr_list"
    /\ resp.body # <<>>
    /\ \E t \in DOMAIN attrs[resp.req.kind] :
          attrs[resp.req.kind][t].user # resp.user
    /\ \E r \in DOMAIN recipes : recipes[r].title = "t1"

\* C2: every tag and ingredient linked to a recipe is owned by the owner of
\* that recipe, whatever recipe creates and updates were served.
C2_NoCrossUserLink ==
    \A k \in Kinds : \A r \in DOMAIN links[k] : \A t \in links[k][r] :
        t \in DOMAIN attrs[k] => attrs[k][t].user = recipes[r].user

\* a recipe was created with a name that only another user owns, while some
\* recipe carries links
C2_Witness ==
    /\ resp.op = "recipe_create"
    /\ resp.status = 201
    /\ \E k \in Kinds : \E n \in NamesOf(resp.req, k) :
          /\ Owned(k, resp.user, n) = {}
          /\ \E t \in DOMAIN attrs[k] :
                attrs[k][t].name = n /\ attrs[k][t].user # resp.user
    /\ \E k \in Kinds : \E r \in DOMAIN links[k] : links[k][r] # {}

\* C3: after a successful recipe create or update, every name the payload
\* lists for a kind is owned exactly once by the requester, and that one row
\* is linked to the recipe.
C3_NamesResolvedAndAttached ==
    (IsRecipeWrite(resp.op) /\ Succeeded) =>
        \A k \in Kinds : \A n \in NamesOf(resp.req, k) :
            /\ Cardinality(Owned(k, resp.user, n)) = 1
            /\ Owned(k, resp.user, n) \subseteq links[k][resp.id]

\* C4: after a successful update whose payload has the key of a kind, the
\* links of the recipe for that kind are exactly the requester's rows with
\* the listed names, one row for every listed name.
C4_UpdateReplacesLinks ==
    (resp.op = "recipe_update" /\ Succeeded) =>
        \A k \in Kinds :
            KeyOf[k] \in DOMAIN resp.req =>
                /\ links[k][resp.id] =
                      UNION {Owned(k, resp.user, n) : n \in NamesOf(resp.req, k)}
                /\ \A n \in NamesOf(resp.req, k) : Owned(k, resp.user, n) # {}

\* C5: a successful update with an empty tags list leaves the recipe with no
\* tag links and leaves every tag in place (likewise for ingredients).
C5_EmptyListClearsLinks ==
    [][(resp'.op = "recipe_update" /\ resp'.status = 200) =>
          \A k \in Kinds :
             (KeyOf[k] \in DOMAIN resp'.req /\ resp'.req[KeyOf[k]] = <<>>) =>
                /\ links'[k][resp'.id] = {}
                /\ attrs'[k] = attrs[k]]_vars

\* C6: a successful update whose payload lacks the key of a kind leaves the
\* links of the recipe for that kind as they were; so replacing tags alone
\* leaves the ingredients, and replacing ingredients alone leaves the tags.
C6_AbsentKeyKeepsLinks ==
    [][(resp'.op = "recipe_update" /\ resp'.status = 200) =>
          \A k \in Kinds :
             KeyOf[k] \notin DOMAIN resp'.req =>
                links'[k][resp'.id] = links[k][resp'.id]]_vars

\* an update without the tags key was served for a recipe that has tag links
C6_Witness ==
    /\ resp.op = "recipe_update"
    /\ resp.status = 200
    /\ "tags" \notin DOMAIN resp.req
    /\ "ingredients" \in DOMAIN resp.req
    /\ links["Tag"][resp.id] # {}

C8_ForeignRecipeNotFound ==
    [][(/\ resp'.op \in {"recipe_retrieve", "recipe_update", "recipe_destroy"}
        /\ \/ resp'.id \notin DOMAIN recipes
           \/ recipes[resp'.id].user # resp'.user) =>
          /\ resp'.status = 404
          /\ resp'.body = NoBody
          /\ db' = db]_vars

\* an update addressed at an existing recipe of another user was answered 404
C8_Witness ==
    /\ resp.op = "recipe_update"
    /\ resp.status = 404
    /\ resp.id \in DOMAIN recipes
    /\ recipes[resp.id].user # resp.user
    /\ "title" \in DOMAIN resp.req

NoDuplicateNames ==
    \A k \in Kinds : \A t1, t2 \in DOMAIN attrs[k] :
        (t1 # t2 /\ attrs[k][t1].user = attrs[k][t2].user) =>
            attrs[k][t1].name # attrs[k][t2].name

\* C9 as stated: after any sequence of requests served one at a time no user
\* owns two tags, or two ingredients, with the same name.
C9_NeverDuplicateNames == NoDuplicateNames

\* the request just served renamed a row to a name that another row of the
\* same kind and user already had
RenamedOntoOwnName ==
    /\ resp'.op = "attr_update"
    /\ resp'.status = 200
    /\ \E t \in DOMAIN attrs[resp'.req.kind] \ {resp'.id} :
          /\ attrs[resp'.req.kind][t].user = resp'.user
          /\ attrs[resp'.req.kind][t].name =
                attrs'[resp'.req.kind][resp'.id].name

\* C9 as amended: a request served while no user owns two equally named rows
\* leaves it so, unless it renames a row to a name its owner already has.
C9_OnlyRenameDuplicates ==
    [][(NoDuplicateNames /\ ~RenamedOntoOwnName) => NoDuplicateNames']_vars

\* a recipe was created with a name its owner has, and the name is still
\* owned once, after a tag was renamed to a name that was free
C9_Witness ==
    /\ resp.op = "recipe_create"
    /\ resp.status = 201
    /\ \E n \in NamesOf(resp.req, "Tag") :
          Cardinality(Owned("Tag", resp.user, n)) = 1
    /\ \E t \in DOMAIN attrs["Tag"] :
          attrs["Tag"][t] # FixtureOrder["Tag"][t]
    /\ NoDuplicateNames

BothDone ==
    /\ DOMAIN inflight = Requests
    /\ \A c \in Requests : inflight[c].pc = "done"

\* C10: once two concurrent creates of one user that both list a name the
\* user did not own have completed, the user owns exactly one row with that
\* name and both new recipes are linked to it.
C10_ConcurrentResolveOnce ==
    (BothDone /\ inflight[1].user = inflight[2].user) =>
        \A k \in Kinds :
            \A n \in inflight[1].absent[k] \cap inflight[2].absent[k] :
                /\ Cardinality(Owned(k, inflight[1].user, n)) = 1
                /\ \A c \in Requests :
                      Owned(k, inflight[1].user, n) \subseteq
                          links[k][inflight[c].id]

\* the rows of a kind that at least one recipe is linked to
Assigned(k) == UNION {links[k][r] : r \in DOMAIN links[k]}

\* C11: a tag (ingredient) list requested with assigned_only=1 holds exactly
\* the requester's rows that some recipe is linked to, each of them once; a
\* row no recipe is linked to is not in it.
C11_AssignedOnlyListsLinked ==
    (resp.op = "attr_list" /\ "assigned_only" \in DOMAIN resp.req) =>
        /\ Range(resp.body) =
              {t \in DOMAIN attrs[resp.req.kind] :
                  /\ attrs[resp.req.kind][t].user = resp.user
                  /\ t \in Assigned(resp.req.kind)}
        /\ Len(resp.body) = Cardinality(Range(resp.body))

\* the names a list gives more than once
Repeated(l) == {l[i] : i \in {i \in DOMAIN l : \E j \in DOMAIN l : j # i /\ l[j] = l[i]}}

\* C12: after a successful recipe create whose tag (ingredient) list repeats
\* a name, the requester owns one row with that name and the new recipe is
\* linked to it once: its links are those of the list without the repeats.
C12_RepeatedNameResolvedOnce ==
    (resp.op = "recipe_create" /\ resp.status = 201) =>
        \A k \in Kinds :
            KeyOf[k] \in DOMAIN resp.req =>
                \A n \in Repeated(resp.req[KeyOf[k]]) :
                    /\ Cardinality(Owned(k, resp.user, n)) = 1
                    /\ links[k][resp.id] =
                          UNION {Owned(k, resp.user, x) : x \in NamesOf(resp.req, k)}

\* C13: a successful recipe delete removes the recipe and its links and
\* nothing else: every tag and ingredient stays, with its owner, and every
\* other recipe keeps its links.
C13_DestroyKeepsAttrs ==
    [][(resp'.op = "recipe_destroy" /\ resp'.status = 204) =>
          /\ recipes' = Without(recipes, resp'.id)
          /\ attrs' = attrs
          /\ \A k \in Kinds : links'[k] = Without(links[k], resp'.id)]_vars

\* a recipe was deleted while another recipe of its owner, linked to the same
\* tags, is still there with its links
C13_Witness ==
    /\ resp.op = "recipe_destroy"
    /\ resp.status = 204
    /\ \E r \in DOMAIN recipes :
          /\ recipes[r].user = resp.user
          /\ links["Tag"][r] # {}
          /\ links["Tag"][r] = {t \in DOMAIN attrs["Tag"] :
                                  attrs["Tag"][t].user = resp.user}

\* C14: a request to any recipe, tag or ingredient operation that carries no
\* valid credential is answered 401 with no body, whether or not the record
\* it addresses exists, and changes no recipe, tag, ingredient or link.
C14_NoCredentialUnauthorized ==
    [][(resp' # resp /\ resp'.user \notin Users) =>
          /\ resp'.status = 401
          /\ resp'.body = NoBody
          /\ db' = db]_vars

\* a delete without a credential, addressed at a tag that exists and that a
\* recipe is linked to, was answered 401 after a recipe was created
C14_Witness ==
    /\ resp.op = "attr_destroy"
    /\ resp.user = "none"
    /\ resp.status = 401
    /\ resp.id \in DOMAIN attrs[resp.req.kind]
    /\ \E r \in DOMAIN recipes : resp.id \in links[resp.req.kind][r]
    /\ \E r \in DOMAIN recipes : recipes[r].title = "t1"

\* C15: a successful recipe create adds exactly one recipe: the requester owns
\* one recipe more, no other recipe changes, the new recipe has the requester
\* as owner and the payload's scalar values, and its tag and ingredient links
\* are the requester's rows with the names of the payload, one for every name.
C15_CreateAddsOneRecipe ==
    [][(resp'.op = "recipe_create" /\ resp'.status = 201) =>
          /\ resp'.id \notin DOMAIN recipes
          /\ DOMAIN recipes' = DOMAIN recipes \cup {resp'.id}
          /\ \A r \in DOMAIN recipes : recipes'[r] = recipes[r]
          /\ recipes'[resp'.id] =
                [user |-> resp'.user, title |-> resp'.req.title]
          /\ \A k \in Kinds :
                /\ links'[k][resp'.id] =
                      {t \in DOMAIN attrs'[k] :
                          /\ attrs'[k][t].user = resp'.user
                          /\ attrs'[k][t].name \in NamesOf(resp'.req, k)}
                /\ \A n \in NamesOf(resp'.req, k) :
                      \E t \in links'[k][resp'.id] : attrs'[k][t].name = n]_vars

\* C16: an upload of something that is not an image to the image endpoint of
\* an own recipe is answered 400 and leaves the recipe, its image reference
\* included, and everything else as it was.
C16_InvalidImageRejected ==
    [][(/\ resp'.op = "recipe_upload_image"
        /\ resp'.req.image = "notanimage"
        /\ resp'.id \in RecipeViewSet_get_queryset(resp'.user)) =>
          /\ resp'.status = 400
          /\ db' = db]_vars

\* every link of a recipe refers to a row that exists
NoDanglingLinks ==
    \A k \in Kinds : \A r \in DOMAIN links[k] : links[k][r] \subseteq DOMAIN attrs[k]

\* C17: a successful tag (ingredient) delete removes that row and every link
\* to it and nothing else; at all times every link refers to a row that
\* exists; a delete or rename addressed at a row of another user answers 404
\* and changes nothing.
C17_AttrDestroyExact ==
    /\ []NoDanglingLinks
    /\ [][(resp'.op = "attr_destroy" /\ resp'.status = 204) =>
              (/\ recipes' = recipes
               /\ attrs' = [attrs EXCEPT ![resp'.req.kind] = Without(@, resp'.id)]
               /\ links' = [links EXCEPT ![resp'.req.kind] =
                               [r \in DOMAIN @ |-> @[r] \ {resp'.id}]])]_vars
    /\ [][(/\ resp'.op \in {"attr_destroy", "attr_update"}
           /\ resp' # resp
           /\ resp'.id \in DOMAIN attrs[resp'.req.kind]
           /\ attrs[resp'.req.kind][resp'.id].user # resp'.user) =>
              (resp'.status = 404 /\ db' = db)]_vars

\* a user deleted one of two rows that a recipe of theirs was linked to: the
\* row is gone and the recipe is still linked to the other one
C17_Witness ==
    /\ resp.op = "attr_destroy"
    /\ resp.status = 204
    /\ resp.id \notin DOMAIN attrs[resp.req.kind]
    /\ \E r \in DOMAIN recipes :
          /\ recipes[r].user = resp.user
          /\ links[resp.req.kind][r] # {}
====
